---------------------------- MODULE Spec2Model ----------------------------
(***************************************************************************)
(* Frame acquisition and lifecycle pipeline of nsitu/slammer.              *)
(*                                                                         *)
(* Modelled code:                                                          *)
(*   src/src/modules/camera.js   class CameraManager                       *)
(*       initialize, getFrameStream, stop, getDimensions                   *)
(*   src/src/main.js             initialize, processFrames (SVG build)     *)
(*   src/unnamed/part_000        processFrames (three.js build)            *)
(*                                                                         *)
(* The platform (getUserMedia, MediaStreamTrackProcessor, the stream       *)
(* reader, VideoFrame, Stats, AlvaAR) is the environment: every outcome    *)
(* the Web APIs allow is a nondeterministic choice.  reader.releaseLock()  *)
(* follows the WHATWG Streams Standard: it never throws and it rejects the *)
(* read requests that are still pending; a read that is already fulfilled  *)
(* keeps its frame.                                                        *)
(***************************************************************************)
EXTENDS Integers, Sequences, FiniteSets

(***************************************************************************)
(* Bounds of the model.                                                    *)
(***************************************************************************)
\* frames the reader delivers in one run (the warm-up frame included)
MaxFrames == 5
\* calls of cameraManager.stop() by the owner of the manager
MaxStops == 2
\* for-await loops over getFrameStream() started in one run
MaxLoops == 2
\* clicks on the start button in one run
MaxClicks == 2

(***************************************************************************)
(* Program constants.                                                      *)
(***************************************************************************)
\* faulty variant of TargetFPS: half the native rate is requested
TargetFPS_Half == 30 \div 2

\* camera.js:82  const targetFPS = 30
TargetFPS == 30
\* camera.js:83  Math.floor(30 / targetFPS): the assumed native rate
NativeFPS == 30
\* camera.js:5-6 constructor defaults
DefaultWidth == 640
DefaultHeight == 480

\* target rates the rate-control policy is exercised with
TargetRates == {10, 15, 20, 30, 60}

\* resolutions the platform may grant (constraints are only "ideal")
Resolutions == { <<640, 480>>, <<240, 320>>, <<352, 288>> }

\* errors getUserMedia rejects with
GumErrors == {"NotAllowedError", "NotFoundError"}

\* the two builds of the consumer loop processFrames
Builds == {"svg", "three"}

VARIABLES
    \* ---- platform and configuration, fixed at page load
    polyfillingMSTP,   \* globalThis.polyfillingMSTP === true
    windowMSTP,        \* window.MediaStreamTrackProcessor is defined
    isPortrait,        \* window.innerHeight > window.innerWidth
    build,             \* which processFrames consumes the frames
    targetFPS,         \* const targetFPS of getFrameStream
    \* ---- CameraManager fields
    stream,            \* this.stream: "null" or "stream"
    reader,            \* this.reader: "null" or "reader"
    videoWidth,
    videoHeight,
    isStreaming,
    mstpType,
    \* ---- the call of CameraManager.initialize()
    initPc,            \* "idle", "awaitGUM", "awaitRead", "resolved", "rejected"
    thrown,            \* the error raised inside initialize ("none" if none)
    rejection,         \* the error initialize() rejected with
    session,           \* the object initialize() resolved with
    \* ---- platform objects
    gumCalls,          \* calls of navigator.mediaDevices.getUserMedia
    requested,         \* the ideal <<width, height>> of the constraints
    granted,           \* the resolution of the frames of the acquired track
    trackState,        \* "none", "live", "ended"
    trackStops,        \* calls of track.stop()
    readersCreated,    \* calls of processor.readable.getReader()
    lockReleases,      \* calls of reader.releaseLock()
    readableState,     \* processor.readable: "open", "closed", "errored"
    rdState,           \* the reader.read() in flight: "none", "pending",
                       \* "frame", "done", "error"
    rdFrame,           \* the frame a fulfilled read carries
    delivered,         \* frames the reader delivered so far: 1..delivered
    closeCount,        \* closeCount[f]: calls of frame.close() on frame f
    warmFrame,         \* the frame the warm-up pull obtained (0: none)
    \* ---- the getFrameStream() generator
    genPc,             \* "none", "awaitRead", "atYield", "completed"
    frameCount,
    frameInterval,
    genForwarded,      \* frames this generator yielded
    genReads,          \* reader.read() calls this generator issued
    \* ---- the consumer loop (processFrames)
    conPc,             \* "none", "waiting", "body", "done", "threw"
    held,              \* the frame the loop body holds (0: none)
    forwarded,         \* every frame yielded, in order
    loops,             \* for-await loops started
    \* ---- the application (main.js initialize)
    appPc,             \* "idle", "awaitCamera", "awaitIMU", "awaitSlam",
                       \* "processing", "finished", "failed"
    slamInits,         \* calls of AlvaAR.Initialize
    \* ---- the owner calling stop()
    stopCalls,
    stopThrew,         \* some stop() raised an exception
    \* ---- history of the running generator
    lastPull,          \* how its latest reader.read() settled
    lastFrame,         \* the frame its latest successful pull obtained
    \* ---- log of what the code did
    dropped,           \* frames the generator closed itself (rate-drop)
    lateFrame,         \* the frame of a pull that completed after stop()
                       \* had released the reader (0: none)
    lastOutcome,       \* how the latest run of the loop body went
    catchThrew,        \* its catch block threw
    stopTrace,         \* the effects of the latest stop(), in order
    pixelsRead,        \* the forwarded frame whose pixels the consumer has
                       \* copied out (0: none yet)
    usedClosed         \* some frame was read after a close() of it

VARIABLES
    \* ---- the page and its start button (main.js:425-427, 595-659)
    isIOS,             \* the platform asks for motion permissions
    overlay,           \* the overlay with the start button is in the page
    permissionGranted,
    cameraManager,     \* the module variable: 0 (undefined) or a manager
    clicks,            \* click handlers started
    hPc,               \* hPc[h]: where click handler h stands
    cmReader,          \* cmReader[m]: this.reader of manager m
    loopOn,            \* loopOn[h]: the manager processFrames of handler h
                       \* iterates (0: none)
    loopPc             \* loopPc[h]: "none", "awaitRead", "body"

cfgVars == <<polyfillingMSTP, windowMSTP, isPortrait, build, targetFPS>>
mgrVars == <<stream, reader, videoWidth, videoHeight, isStreaming, mstpType>>
initVars == <<initPc, thrown, rejection, session>>
mediaVars == <<gumCalls, requested, granted, trackState, trackStops,
               readersCreated, lockReleases, readableState>>
readVars == <<rdState, rdFrame, delivered, closeCount, warmFrame>>
genVars == <<genPc, frameCount, frameInterval, genForwarded, genReads>>
conVars == <<conPc, held, forwarded, loops>>
appVars == <<appPc, slamInits>>
stopVars == <<stopCalls, stopThrew>>
histVars == <<lastPull, lastFrame>>
logVars == <<dropped, lateFrame, lastOutcome, catchThrew, stopTrace>>
useVars == <<pixelsRead, usedClosed>>
clickVars == <<isIOS, overlay, permissionGranted, cameraManager, clicks, hPc,
               cmReader, loopOn, loopPc>>
pipeVars == <<cfgVars, mgrVars, initVars, mediaVars, readVars, genVars,
              conVars, appVars, stopVars, histVars, logVars, useVars>>

vars == <<cfgVars, mgrVars, initVars, mediaVars, readVars, genVars, conVars,
          appVars, stopVars, histVars, logVars, useVars, clickVars>>

Frames == 1..MaxFrames

(***************************************************************************)
(* Pure helpers of CameraManager.                                          *)
(***************************************************************************)
\* camera.js:17-30  the ideal resolution follows the orientation
IdealConstraints(portrait) ==
    IF portrait THEN <<240, 320>> ELSE <<640, 480>>

\* faulty variant of DetectMSTP: the native processor is tested first
DetectMSTP_NativeFirst(flag, native) ==
    IF native THEN "native"
    ELSE IF flag THEN "polyfill"
    ELSE "unsupported"

\* camera.js:40-49  the producer kind, in priority order
DetectMSTP(flag, native) ==
    IF flag THEN "polyfill"
    ELSE IF native THEN "native"
    ELSE "unsupported"

\* faulty variant of FrameInterval: the quotient is taken the wrong way round
FrameInterval_Swapped(nativeRate, targetRate) == targetRate \div nativeRate

\* camera.js:83  Math.floor(30 / targetFPS)
FrameInterval(nativeRate, targetRate) == nativeRate \div targetRate

\* camera.js:93  frameCount % frameInterval === 0
\* (in JavaScript n % 0 is NaN, and NaN === 0 is false)
ShouldForward(count, interval) ==
    IF interval = 0 THEN FALSE ELSE count % interval = 0

\* faulty variant of WarmupDimensions: the requested ideal size is kept
WarmupDimensions_Ideal(frameDims, ideal) == ideal

\* camera.js:59-60  the dimensions initialize() stores: those of firstFrame
WarmupDimensions(frameDims, ideal) == frameDims

\* faulty variant of InitCatch: the cause is replaced by a generic error
InitCatch_Generic(error) == "Error"

\* camera.js:73-76  catch (error) { console.error(...); throw error; }
InitCatch(error) == error

\* camera.js:99-101  catch (error) { console.error(...) }: the generator
\* returns normally, so the for-await loop of the consumer ends normally
StreamCatch == "done"

\* faulty variant of StopTouchesReader: the null test is missing
StopTouchesReader_Unguarded(rd) == TRUE

\* camera.js:108  if (this.reader)
StopTouchesReader(rd) == rd # "null"

\* camera.js:114  if (this.stream)
StopTouchesStream(st) == st # "null"

\* camera.js:110  this.reader = null
ReaderAfterStop == "null"

\* faulty variant of StopSteps: the tracks are stopped before the lock is
\* released
StopSteps_TrackFirst(rd, st) ==
    (IF StopTouchesStream(st) THEN <<"trackStop">> ELSE <<>>)
    \o (IF StopTouchesReader(rd) THEN <<"releaseLock">> ELSE <<>>)
    \o <<"flag">>

\* camera.js:105-117  the effects of stop(), in statement order
StopSteps(rd, st) ==
    <<"flag">>
    \o (IF StopTouchesReader(rd) THEN <<"releaseLock">> ELSE <<>>)
    \o (IF StopTouchesStream(st) THEN <<"trackStop">> ELSE <<>>)

\* faulty variant of WarmupCloses: the warm-up frame is never closed
WarmupCloses_Missing == 1 - 1

\* camera.js:65  firstFrame.close()
WarmupCloses == 1

\* faulty variant of PullEnded: the done flag is not tested
PullEnded_Ignored(done) == FALSE

\* camera.js:88  if (done) break;
PullEnded(done) == done

\* faulty variant of RetriesOnError: the catch sits inside the while loop
RetriesOnError_Yes == TRUE

\* camera.js:85-101  the try block encloses the whole while loop, so a
\* rejected read leaves the loop
RetriesOnError == FALSE

\* camera.js:120-125
getDimensions == <<videoWidth, videoHeight>>

(***************************************************************************)
(* The consumer loop body, after `await extractImageDataFromFrame(frame)`. *)
(* outcome: "ok"         nothing throws                                    *)
(*          "throwEarly" something throws before the try block's           *)
(*                       frame.close()                                     *)
(*          "throwLate"  something throws after it (svg build only:        *)
(*                       Stats.stop('total') / Stats.render(deviceInfo))   *)
(***************************************************************************)
\* faulty variant of ConsumerCloses: the catch block forgets frame.close()
ConsumerCloses_NotInCatch(b, outcome) ==
    IF outcome = "throwEarly" THEN 0 ELSE 1

\* main.js:507-517 and part_000:308-313: calls of frame.close() per outcome
ConsumerCloses(b, outcome) ==
    IF b = "svg"
    THEN (IF outcome = "throwLate" THEN 2 ELSE 1)
    ELSE 1

\* outcomes each build can produce: in part_000 frame.close() is the last
\* statement of the try block, so nothing can throw after it
Outcomes(b) ==
    IF b = "svg" THEN {"ok", "throwEarly", "throwLate"}
    ELSE {"ok", "throwEarly"}

\* main.js:513-518: the catch block calls Stats.stop / Stats.render, which
\* may throw out of the loop; part_000:310-313: the catch block cannot throw
CatchMayThrow(b, outcome) == b = "svg" /\ outcome # "ok"

\* main.js:478-479, 513 and part_000:232-233, 310: the try/catch is inside
\* the loop body, so only an exception of the catch block leaves the loop
ExceptionLeavesLoop(outcome, catchThrows) == catchThrows

(***************************************************************************)
(* Initial state: page loaded, `new CameraManager()` not yet initialized.  *)
(***************************************************************************)
\* camera.js:2-10  constructor; the platform and the build are arbitrary
InitWith(rates) ==
    /\ polyfillingMSTP \in BOOLEAN
    /\ windowMSTP \in BOOLEAN
    /\ isPortrait \in BOOLEAN
    /\ build \in Builds
    /\ targetFPS \in rates
    /\ stream = "null"
    /\ reader = "null"
    /\ videoWidth = DefaultWidth
    /\ videoHeight = DefaultHeight
    /\ isStreaming = FALSE
    /\ mstpType = "unknown"
    /\ initPc = "idle"
    /\ thrown = "none"
    /\ rejection = "none"
    /\ session = [width |-> 0, height |-> 0, mstpType |-> "unknown"]
    /\ gumCalls = 0
    /\ requested = <<0, 0>>
    /\ granted = <<0, 0>>
    /\ trackState = "none"
    /\ trackStops = 0
    /\ readersCreated = 0
    /\ lockReleases = 0
    /\ readableState = "open"
    /\ rdState = "none"
    /\ rdFrame = 0
    /\ delivered = 0
    /\ closeCount = [f \in Frames |-> 0]
    /\ warmFrame = 0
    /\ genPc = "none"
    /\ frameCount = 0
    /\ frameInterval = 0
    /\ genForwarded = 0
    /\ genReads = 0
    /\ conPc = "none"
    /\ held = 0
    /\ forwarded = <<>>
    /\ loops = 0
    /\ appPc = "idle"
    /\ slamInits = 0
    /\ stopCalls = 0
    /\ stopThrew = FALSE
    /\ lastPull = "none"
    /\ lastFrame = 0
    /\ dropped = {}
    /\ lateFrame = 0
    /\ lastOutcome = "none"
    /\ catchThrew = FALSE
    /\ stopTrace = <<>>
    /\ pixelsRead = 0
    /\ usedClosed = FALSE

(***************************************************************************)
(* The start button  (main.js:595-659) and the application's initialize()  *)
(* (main.js:430-473) as started by its click handler.  Each click runs its *)
(* own handler; handler h creates CameraManager number h.  The module      *)
(* variable `cameraManager` is shared by all handlers.                     *)
(***************************************************************************)
Handlers == 1..MaxClicks

\* main.js:425-427, 596-617  the page after createStartButton()
PageLoaded(ios) ==
    /\ isIOS \in ios
    /\ overlay = TRUE
    /\ permissionGranted = FALSE
    /\ cameraManager = 0
    /\ clicks = 0
    /\ hPc = [h \in Handlers |-> "none"]
    /\ cmReader = [m \in Handlers |-> "null"]
    /\ loopOn = [h \in Handlers |-> 0]
    /\ loopPc = [h \in Handlers |-> "none"]

\* the pipeline is followed from one start of the application (AppStart);
\* the prompts of the start button are followed by SpecClicks
Init == InitWith({TargetFPS}) /\ PageLoaded({FALSE})


(***************************************************************************)
(* CameraManager.initialize()  (camera.js:12-77), called by the            *)
(* application's initialize() (main.js:430-473).                           *)
(***************************************************************************)
\* main.js:470-472  catch (error) { console.error(...) }: startup ends
AppCatch == "failed"

\* camera.js:73-76 with main.js:470-472: initialize() rejects with `error`
\* and the application's try block is left
InitFails(error) ==
    /\ thrown' = error
    /\ rejection' = InitCatch(error)
    /\ initPc' = "rejected"
    /\ appPc' = AppCatch

\* main.js:433-434 with camera.js:14-35: new CameraManager(), then
\* initialize() up to `await getUserMedia(constraints)`
AppStart ==
    /\ appPc = "idle"
    /\ initPc = "idle"
    /\ appPc' = "awaitCamera"
    /\ initPc' = "awaitGUM"
    /\ requested' = IdealConstraints(isPortrait)
    /\ gumCalls' = gumCalls + 1
    /\ UNCHANGED <<clickVars, useVars, cfgVars, logVars,
                   mgrVars, thrown, rejection, session, granted,
                   trackState, trackStops, readersCreated, lockReleases,
                   readableState, readVars, genVars, conVars, slamInits,
                   stopVars, histVars>>

\* camera.js:35 rejects (permission denied, no camera): catch and rethrow
GumReject(error) ==
    /\ initPc = "awaitGUM"
    /\ InitFails(error)
    /\ UNCHANGED <<clickVars, useVars, cfgVars, logVars,
                   mgrVars, session, mediaVars, readVars, genVars,
                   conVars, slamInits, stopVars, histVars>>

\* camera.js:35-58  getUserMedia resolves with a stream whose track delivers
\* `res`; the producer kind is detected, the processor is constructed
\* (ctorThrows: the constructor raises), the reader is taken and the warm-up
\* read is issued
GumResolve(res, ctorThrows) ==
    /\ initPc = "awaitGUM"
    /\ stream' = "stream"
    /\ granted' = res
    /\ trackState' = "live"
    /\ mstpType' = DetectMSTP(polyfillingMSTP, windowMSTP)
    /\ IF mstpType' = "unsupported"
       THEN /\ InitFails("UnsupportedError")
            /\ UNCHANGED <<reader, readersCreated, rdState>>
       ELSE IF ~windowMSTP
       THEN \* `new MediaStreamTrackProcessor` names an undefined global
            /\ InitFails("ReferenceError")
            /\ UNCHANGED <<reader, readersCreated, rdState>>
       ELSE IF ctorThrows
       THEN /\ InitFails("ConstructorError")
            /\ UNCHANGED <<reader, readersCreated, rdState>>
       ELSE /\ reader' = "reader"
            /\ readersCreated' = readersCreated + 1
            /\ rdState' = "pending"
            /\ initPc' = "awaitRead"
            /\ UNCHANGED <<thrown, rejection, appPc>>
    /\ UNCHANGED <<clickVars, useVars, cfgVars, logVars,
                   videoWidth, videoHeight, isStreaming, session,
                   gumCalls, requested, trackStops, lockReleases,
                   readableState, rdFrame, delivered, closeCount, warmFrame,
                   genVars, conVars, slamInits, stopVars, histVars>>

\* camera.js:58-72  the warm-up read settles
InitOnRead ==
    /\ initPc = "awaitRead"
    /\ rdState \in {"frame", "done", "error"}
    /\ rdState' = "none"
    /\ IF rdState = "frame"
       THEN LET dims == WarmupDimensions(granted, requested) IN
            /\ videoWidth' = dims[1]
            /\ videoHeight' = dims[2]
            /\ warmFrame' = rdFrame
            /\ closeCount' = [closeCount EXCEPT ![rdFrame] = @ + WarmupCloses]
            /\ session' = [width |-> videoWidth', height |-> videoHeight',
                           mstpType |-> mstpType]
            /\ initPc' = "resolved"
            /\ appPc' = "awaitIMU"
            /\ UNCHANGED <<thrown, rejection>>
       ELSE \* done: firstFrame is undefined, firstFrame.displayWidth throws
            /\ InitFails(IF rdState = "done" THEN "TypeError" ELSE "ReadError")
            /\ UNCHANGED <<videoWidth, videoHeight, warmFrame, closeCount,
                           session>>
    /\ UNCHANGED <<clickVars, useVars, cfgVars, logVars,
                   stream, reader, isStreaming, mstpType, mediaVars,
                   rdFrame, delivered, genVars, conVars, slamInits, stopVars,
                   histVars>>

(***************************************************************************)
(* The reader of processor.readable (platform).                            *)
(***************************************************************************)
\* a pending read is fulfilled with the next frame
ReaderDeliver ==
    /\ rdState = "pending"
    /\ readableState = "open"
    /\ delivered < MaxFrames
    /\ delivered' = delivered + 1
    /\ rdFrame' = delivered + 1
    /\ rdState' = "frame"
    /\ UNCHANGED <<clickVars, useVars, cfgVars, logVars,
                   mgrVars, initVars, mediaVars, closeCount,
                   warmFrame, genVars, conVars, appVars, stopVars, histVars>>

\* the track ends: the read is fulfilled with { done: true }
ReaderEnd ==
    /\ rdState = "pending"
    /\ readableState \in {"open", "closed"}
    /\ readableState' = "closed"
    /\ trackState' = "ended"
    /\ rdState' = "done"
    /\ UNCHANGED <<clickVars, useVars, cfgVars, logVars,
                   mgrVars, initVars, gumCalls, requested, granted,
                   trackStops, readersCreated, lockReleases, rdFrame,
                   delivered, closeCount, warmFrame, genVars, conVars,
                   appVars, stopVars, histVars>>

\* the stream errors: the read is rejected
ReaderFail ==
    /\ rdState = "pending"
    /\ readableState \in {"open", "errored"}
    /\ readableState' = "errored"
    /\ rdState' = "error"
    /\ UNCHANGED <<clickVars, useVars, cfgVars, logVars,
                   mgrVars, initVars, gumCalls, requested, granted,
                   trackState, trackStops, readersCreated, lockReleases,
                   rdFrame, delivered, closeCount, warmFrame, genVars,
                   conVars, appVars, stopVars, histVars>>

(***************************************************************************)
(* CameraManager.getFrameStream()  (camera.js:79-102).                     *)
(***************************************************************************)
\* what the application's pc becomes when the loop it awaits ends
\* (main.js:468-472: normal return, or the catch of initialize)
AppAfterLoop(awaited, c) ==
    IF awaited
    THEN (IF c = "done" THEN "finished"
          ELSE IF c = "threw" THEN AppCatch
          ELSE "processing")
    ELSE appPc

\* camera.js:86-87  the top of the while loop: test the flag, then issue
\* reader.read(); a null this.reader raises a TypeError inside the try block,
\* which the catch of lines 99-101 absorbs
PullOrFinish(streaming, rd) ==
    IF streaming
    THEN IF rd # "null"
         THEN /\ genPc' = "awaitRead"
              /\ conPc' = "waiting"
              /\ rdState' = "pending"
              /\ genReads' = genReads + 1
         ELSE /\ genPc' = "completed"
              /\ conPc' = StreamCatch
              /\ rdState' = "none"
              /\ genReads' = genReads
    ELSE /\ genPc' = "completed"
         /\ conPc' = "done"
         /\ rdState' = "none"
         /\ genReads' = genReads

\* camera.js:80-87  the first next() of a for-await loop runs the generator
\* from its start to the first await
BeginStream ==
    /\ isStreaming' = TRUE
    /\ frameCount' = 0
    /\ frameInterval' = FrameInterval(NativeFPS, targetFPS)
    /\ genForwarded' = 0
    /\ loops' = loops + 1
    /\ lastPull' = "none"
    /\ lastFrame' = 0
    /\ IF reader # "null"
       THEN /\ genPc' = "awaitRead"
            /\ conPc' = "waiting"
            /\ rdState' = "pending"
            /\ genReads' = 1
       ELSE /\ genPc' = "completed"
            /\ conPc' = StreamCatch
            /\ rdState' = "none"
            /\ genReads' = 0

\* faulty variant of YieldCloses: the generator closes the frame it yields
YieldCloses_One == 2 - 1

\* camera.js:93-94  the forward branch yields the frame and does not call
\* frame.close()
YieldCloses == 0

\* faulty variant of Yielded: the frame of the previous pull is handed over
Yielded_Stale(frame) == IF lastFrame = 0 THEN frame ELSE lastFrame

\* camera.js:94  yield frame: the frame the generator hands to the consumer
Yielded(frame) == frame

\* faulty variant of ShouldForwardNow: the counter is tested before it is
\* incremented
ShouldForwardNow_Early(count, interval) ==
    IF interval = 0 THEN FALSE ELSE (count - 1) % interval = 0

\* camera.js:90-93  frameCount++ precedes the test: `count` is the counter
\* after the increment
ShouldForwardNow(count, interval) == ShouldForward(count, interval)

\* faulty variant of FlagAfterPull: the generator clears the flag when the
\* stream ends or a read fails
FlagAfterPull_ClearedAtEnd(flag, settled) ==
    IF settled \in {"done", "error"} THEN FALSE ELSE flag

\* camera.js:87-101  no statement of the loop body, of the break or of the
\* catch block assigns this.isStreaming
FlagAfterPull(flag, settled) == flag

\* faulty variant of GenFails: the failure leaves the generator suspended
GenFails_Hangs ==
    /\ genPc' = genPc
    /\ conPc' = conPc
    /\ rdState' = "none"
    /\ genReads' = genReads

\* camera.js:99-101  the generator ends after a failure inside the try block
GenFails ==
    /\ genPc' = "completed"
    /\ conPc' = StreamCatch
    /\ rdState' = "none"
    /\ genReads' = genReads

\* camera.js:87-101  the read of the generator settles
GenOnRead ==
    /\ genPc = "awaitRead"
    /\ rdState \in {"frame", "done", "error"}
    /\ lastPull' = rdState
    /\ lateFrame' = (IF rdState = "frame" /\ lockReleases > 0 THEN rdFrame
                     ELSE lateFrame)
    /\ IF rdState = "error"
       THEN \* the await throws: catch of lines 99-101
            /\ IF RetriesOnError
               THEN PullOrFinish(isStreaming, reader)
               ELSE GenFails
            /\ UNCHANGED <<frameCount, lastFrame, held, forwarded,
                           genForwarded, closeCount, dropped>>
       ELSE IF PullEnded(rdState = "done")
       THEN \* break: the generator returns
            /\ genPc' = "completed"
            /\ conPc' = "done"
            /\ rdState' = "none"
            /\ UNCHANGED <<frameCount, lastFrame, held, forwarded,
                           genForwarded, closeCount, genReads, dropped>>
       ELSE IF rdState = "done"
       THEN \* (reached only if the done test is absent) `frame` is
            \* undefined: yielded, it makes the loop body and its catch
            \* throw; dropped, undefined.close() throws inside the try block
            /\ frameCount' = frameCount + 1
            /\ IF ShouldForwardNow(frameCount', frameInterval)
               THEN /\ genPc' = "completed"
                    /\ conPc' = "threw"
                    /\ rdState' = "none"
                    /\ genReads' = genReads
               ELSE GenFails
            /\ UNCHANGED <<lastFrame, held, forwarded, genForwarded,
                           closeCount, dropped>>
       ELSE /\ frameCount' = frameCount + 1
            /\ lastFrame' = rdFrame
            /\ IF ShouldForwardNow(frameCount', frameInterval)
               THEN /\ genPc' = "atYield"
                    /\ conPc' = "body"
                    /\ held' = Yielded(rdFrame)
                    /\ forwarded' = Append(forwarded, held')
                    /\ genForwarded' = genForwarded + 1
                    /\ rdState' = "none"
                    /\ closeCount' =
                           [closeCount EXCEPT ![rdFrame] = @ + YieldCloses]
                    /\ UNCHANGED <<genReads, dropped>>
               ELSE /\ closeCount' = [closeCount EXCEPT ![rdFrame] = @ + 1]
                    /\ dropped' = dropped \cup {rdFrame}
                    /\ PullOrFinish(isStreaming, reader)
                    /\ UNCHANGED <<held, forwarded, genForwarded>>
    /\ appPc' = AppAfterLoop(appPc = "processing", conPc')
    /\ isStreaming' = FlagAfterPull(isStreaming, rdState)
    /\ UNCHANGED <<clickVars, useVars, cfgVars, stream, reader, videoWidth,
                   videoHeight, mstpType, initVars, mediaVars, rdFrame,
                   delivered, warmFrame, frameInterval, loops, slamInits,
                   stopVars, lastOutcome, catchThrew, stopTrace>>

(***************************************************************************)
(* processFrames  (main.js:476-520, part_000:226-315): the loop body from  *)
(* the resolution of `await extractImageDataFromFrame(frame)` to the next  *)
(* request of the for-await loop.                                          *)
(***************************************************************************)
\* main.js:485, 523-551 and part_000:242, 318-335  the loop body up to the
\* resolution of `await extractImageDataFromFrame(frame)`: displayWidth,
\* displayHeight and copyTo read the frame (a copyTo failure is caught
\* inside and surfaces as an exception of the statements that follow)
ConsumerExtract ==
    /\ conPc = "body"
    /\ held # 0
    /\ pixelsRead # held
    /\ pixelsRead' = held
    /\ usedClosed' = (usedClosed \/ closeCount[held] > 0)
    /\ UNCHANGED <<clickVars, cfgVars, logVars, mgrVars, initVars, mediaVars,
                   readVars, genVars, conVars, appVars, stopVars, histVars>>

ConsumerBody(outcome, catchThrows) ==
    /\ conPc = "body"
    /\ pixelsRead = held
    /\ outcome \in Outcomes(build)
    /\ catchThrows => CatchMayThrow(build, outcome)
    /\ closeCount' = [closeCount EXCEPT ![held] = @ + ConsumerCloses(build, outcome)]
    /\ held' = 0
    /\ lastOutcome' = outcome
    /\ catchThrew' = catchThrows
    /\ IF ExceptionLeavesLoop(outcome, catchThrows)
       THEN \* the exception leaves the loop: for-await calls return() on the
            \* generator suspended at its yield
            /\ genPc' = "completed"
            /\ conPc' = "threw"
            /\ UNCHANGED <<rdState, genReads>>
       ELSE PullOrFinish(isStreaming, reader)
    /\ appPc' = AppAfterLoop(appPc = "processing", conPc')
    /\ UNCHANGED <<clickVars, useVars, cfgVars,
                   mgrVars, initVars, mediaVars, rdFrame, delivered,
                   warmFrame, frameCount, frameInterval, genForwarded,
                   forwarded, loops, slamInits, stopVars, histVars, dropped,
                   lateFrame, stopTrace>>

(***************************************************************************)
(* CameraManager.stop()  (camera.js:104-118), called by the owner of the   *)
(* manager at any moment.                                                  *)
(***************************************************************************)
stop ==
    /\ stopCalls < MaxStops
    /\ stopCalls' = stopCalls + 1
    /\ stopTrace' = StopSteps(reader, stream)
    /\ isStreaming' = FALSE
    /\ IF StopTouchesReader(reader) /\ reader = "null"
       THEN \* null.releaseLock(): a TypeError leaves stop()
            /\ stopThrew' = TRUE
            /\ UNCHANGED <<reader, lockReleases, rdState, stream, trackStops,
                           trackState>>
       ELSE /\ IF StopTouchesReader(reader)
               THEN /\ lockReleases' = lockReleases + 1
                    /\ rdState' = (IF rdState = "pending" THEN "error"
                                   ELSE rdState)
                    /\ reader' = ReaderAfterStop
               ELSE UNCHANGED <<reader, lockReleases, rdState>>
            /\ IF StopTouchesStream(stream) /\ stream = "null"
               THEN \* null.getTracks(): a TypeError leaves stop()
                    /\ stopThrew' = TRUE
                    /\ UNCHANGED <<stream, trackStops, trackState>>
               ELSE /\ IF StopTouchesStream(stream)
                       THEN /\ trackStops' = trackStops + 1
                            /\ trackState' = "ended"
                            /\ stream' = "null"
                       ELSE UNCHANGED <<stream, trackStops, trackState>>
                    /\ UNCHANGED stopThrew
    /\ UNCHANGED <<clickVars, useVars, cfgVars,
                   dropped, lateFrame, lastOutcome, catchThrew,
                   videoWidth, videoHeight, mstpType, initVars,
                   gumCalls, requested, granted, readersCreated,
                   readableState, rdFrame, delivered, closeCount, warmFrame,
                   genVars, conVars, appVars, histVars>>

(***************************************************************************)
(* The application's initialize()  (main.js:436-468).                      *)
(***************************************************************************)
\* main.js:438-452  IMU.Initialize() settles (a failure is caught and only
\* disables the IMU); AlvaAR.Initialize(width, height) is called
ImuSettled ==
    /\ appPc = "awaitIMU"
    /\ appPc' = "awaitSlam"
    /\ slamInits' = slamInits + 1
    /\ UNCHANGED <<clickVars, useVars, cfgVars, logVars,
                   mgrVars, initVars, mediaVars, readVars, genVars,
                   conVars, stopVars, histVars>>

\* main.js:452-468  the tracker is ready: processFrames starts its loop
SlamResolve ==
    /\ appPc = "awaitSlam"
    /\ loops < MaxLoops
    /\ BeginStream
    /\ appPc' = AppAfterLoop(TRUE, conPc')
    /\ UNCHANGED <<clickVars, useVars, cfgVars, logVars,
                   stream, reader, videoWidth, videoHeight,
                   mstpType, initVars, mediaVars, rdFrame, delivered,
                   closeCount, warmFrame, held, forwarded, slamInits,
                   stopVars>>

\* main.js:452, 470-472  AlvaAR.Initialize rejects
SlamReject ==
    /\ appPc = "awaitSlam"
    /\ appPc' = AppCatch
    /\ UNCHANGED <<clickVars, useVars, cfgVars, logVars,
                   mgrVars, initVars, mediaVars, readVars, genVars,
                   conVars, slamInits, stopVars, histVars>>

\* the owner iterates cameraManager.getFrameStream() again after a loop ended
RestartStream ==
    /\ conPc \in {"done", "threw"}
    /\ loops < MaxLoops
    /\ BeginStream
    /\ UNCHANGED <<clickVars, useVars, cfgVars, logVars,
                   stream, reader, videoWidth, videoHeight,
                   mstpType, initVars, mediaVars, rdFrame, delivered,
                   closeCount, warmFrame, held, forwarded, appVars,
                   stopVars>>

Next ==
    \/ AppStart
    \/ \E e \in GumErrors : GumReject(e)
    \/ \E res \in Resolutions, ctorThrows \in BOOLEAN : GumResolve(res, ctorThrows)
    \/ InitOnRead
    \/ ReaderDeliver
    \/ ReaderEnd
    \/ ReaderFail
    \/ GenOnRead
    \/ ConsumerExtract
    \/ \E o \in {"ok", "throwEarly", "throwLate"}, c \in BOOLEAN : ConsumerBody(o, c)
    \/ stop
    \/ ImuSettled
    \/ SlamResolve
    \/ SlamReject
    \/ RestartStream

Spec == Init /\ [][Next]_vars

\* the rate-control policy under every target rate of TargetRates
InitRate == InitWith(TargetRates) /\ PageLoaded({FALSE})

SpecRate == InitRate /\ [][Next]_vars

\* the steps of the loop body of the consumer
ConsumerSteps ==
    \/ ConsumerExtract
    \/ \E o \in {"ok", "throwEarly", "throwLate"}, c \in BOOLEAN :
           ConsumerBody(o, c)

\* the settling of a pending reader.read()
ReadSettles == ReaderDeliver \/ ReaderEnd \/ ReaderFail

\* Progress: a pending read eventually settles, the generator resumes once
\* its read has settled (a promise reaction), and the consumer eventually
\* finishes the frame it holds.
SpecLive ==
    /\ Init
    /\ [][Next]_vars
    /\ WF_vars(ReadSettles)
    /\ WF_vars(GenOnRead)
    /\ WF_vars(ConsumerSteps)

\* main.js:477  cameraManager.getFrameStream(): the manager is read from the
\* module variable when processFrames starts
ManagerOfLoop(h, shared) == shared

\* main.js:646-650, 433-434  permissionGranted = true; overlay.remove();
\* initialize(): cameraManager = new CameraManager(); its initialize() is
\* called and awaited (getUserMedia, camera.js:35)
StartInitialize(h) ==
    /\ permissionGranted' = TRUE
    /\ overlay' = FALSE
    /\ cameraManager' = h
    /\ hPc' = [hPc EXCEPT ![h] = "awaitGUM"]

\* main.js:620-625  a click on the start button: on iOS the handler first
\* awaits DeviceMotionEvent.requestPermission(), the button still showing
Click ==
    /\ overlay
    /\ clicks < MaxClicks
    /\ clicks' = clicks + 1
    /\ IF isIOS
       THEN /\ hPc' = [hPc EXCEPT ![clicks + 1] = "awaitMotion"]
            /\ UNCHANGED <<permissionGranted, overlay, cameraManager>>
       ELSE StartInitialize(clicks + 1)
    /\ UNCHANGED <<isIOS, cmReader, loopOn, loopPc, pipeVars>>

\* main.js:625-637  the motion prompt is answered
MotionSettled(h, answer) ==
    /\ hPc[h] = "awaitMotion"
    /\ hPc' = [hPc EXCEPT ![h] = IF answer = "granted" THEN "awaitOrientation"
                                  ELSE "failed"]
    /\ UNCHANGED <<isIOS, overlay, permissionGranted, cameraManager, clicks,
                   cmReader, loopOn, loopPc, pipeVars>>

\* main.js:637-650  the orientation prompt is answered (either way the
\* handler goes on)
OrientationSettled(h) ==
    /\ hPc[h] = "awaitOrientation"
    /\ StartInitialize(h)
    /\ UNCHANGED <<isIOS, clicks, cmReader, loopOn, loopPc, pipeVars>>

\* camera.js:35-58  getUserMedia of manager h settles; on success the reader
\* is created and the warm-up read issued
ClickGumSettled(h, ok) ==
    /\ hPc[h] = "awaitGUM"
    /\ IF ok
       THEN /\ cmReader' = [cmReader EXCEPT ![h] = "reader"]
            /\ hPc' = [hPc EXCEPT ![h] = "awaitWarmup"]
       ELSE /\ hPc' = [hPc EXCEPT ![h] = "failed"]
            /\ UNCHANGED cmReader
    /\ UNCHANGED <<isIOS, overlay, permissionGranted, cameraManager, clicks,
                   loopOn, loopPc, pipeVars>>

\* camera.js:58-72, main.js:434-442  the warm-up read of manager h settles
\* and its initialize() resolves; IMU.Initialize() is awaited
ClickWarmupSettled(h) ==
    /\ hPc[h] = "awaitWarmup"
    /\ hPc' = [hPc EXCEPT ![h] = "awaitIMU"]
    /\ UNCHANGED <<isIOS, overlay, permissionGranted, cameraManager, clicks,
                   cmReader, loopOn, loopPc, pipeVars>>

\* main.js:442-452  IMU.Initialize() settles; AlvaAR.Initialize is awaited
ClickImuSettled(h) ==
    /\ hPc[h] = "awaitIMU"
    /\ hPc' = [hPc EXCEPT ![h] = "awaitSlam"]
    /\ UNCHANGED <<isIOS, overlay, permissionGranted, cameraManager, clicks,
                   cmReader, loopOn, loopPc, pipeVars>>

\* main.js:452-477, camera.js:79-101  the tracker is ready: processFrames
\* starts its loop over getFrameStream() of the manager it finds; on a
\* manager without reader the generator catches the TypeError and ends
ClickSlamSettled(h, ok) ==
    /\ hPc[h] = "awaitSlam"
    /\ LET m == ManagerOfLoop(h, cameraManager)
       IN  IF ok /\ cmReader[m] = "reader"
           THEN /\ hPc' = [hPc EXCEPT ![h] = "looping"]
                /\ loopOn' = [loopOn EXCEPT ![h] = m]
                /\ loopPc' = [loopPc EXCEPT ![h] = "awaitRead"]
           ELSE /\ hPc' = [hPc EXCEPT ![h] = IF ok THEN "ended" ELSE "failed"]
                /\ UNCHANGED <<loopOn, loopPc>>
    /\ UNCHANGED <<isIOS, overlay, permissionGranted, cameraManager, clicks,
                   cmReader, pipeVars>>

\* camera.js:87-94  a read of loop h delivers a frame, which is yielded
ClickLoopFrame(h) ==
    /\ hPc[h] = "looping"
    /\ loopPc[h] = "awaitRead"
    /\ loopPc' = [loopPc EXCEPT ![h] = "body"]
    /\ UNCHANGED <<isIOS, overlay, permissionGranted, cameraManager, clicks,
                   hPc, cmReader, loopOn, pipeVars>>

\* main.js:478-519, camera.js:86-87  the loop body is done: next read
ClickLoopNext(h) ==
    /\ hPc[h] = "looping"
    /\ loopPc[h] = "body"
    /\ loopPc' = [loopPc EXCEPT ![h] = "awaitRead"]
    /\ UNCHANGED <<isIOS, overlay, permissionGranted, cameraManager, clicks,
                   hPc, cmReader, loopOn, pipeVars>>

\* camera.js:88, 99-101  a read of loop h reports done or rejects
ClickLoopEnd(h) ==
    /\ hPc[h] = "looping"
    /\ loopPc[h] = "awaitRead"
    /\ hPc' = [hPc EXCEPT ![h] = "ended"]
    /\ loopOn' = [loopOn EXCEPT ![h] = 0]
    /\ loopPc' = [loopPc EXCEPT ![h] = "none"]
    /\ UNCHANGED <<isIOS, overlay, permissionGranted, cameraManager, clicks,
                   cmReader, pipeVars>>

NextClicks ==
    \/ Click
    \/ \E h \in Handlers, a \in {"granted", "denied"} : MotionSettled(h, a)
    \/ \E h \in Handlers : OrientationSettled(h)
    \/ \E h \in Handlers, ok \in BOOLEAN : ClickGumSettled(h, ok)
    \/ \E h \in Handlers : ClickWarmupSettled(h)
    \/ \E h \in Handlers : ClickImuSettled(h)
    \/ \E h \in Handlers, ok \in BOOLEAN : ClickSlamSettled(h, ok)
    \/ \E h \in Handlers : ClickLoopFrame(h)
    \/ \E h \in Handlers : ClickLoopNext(h)
    \/ \E h \in Handlers : ClickLoopEnd(h)

InitClicks == InitWith({TargetFPS}) /\ PageLoaded(BOOLEAN)

SpecClicks == InitClicks /\ [][NextClicks]_vars

(***************************************************************************)
(* Properties.                                                             *)
(***************************************************************************)
\* a frame that was pulled and whose iteration has not finished yet: the
\* read that carries it has not been consumed, or the loop body holds it
InFlight(f) == f = held \/ (rdState = "frame" /\ rdFrame = f)

\* C1: every frame obtained from reader.read() (warm-up pull or
\* getFrameStream) has close() called on it exactly once on every path: a
\* frame whose iteration is over was closed once, no frame is closed twice,
\* and a frame still in flight has not been closed yet.
C1_EveryFrameClosedExactlyOnce ==
    \A f \in 1..delivered :
        closeCount[f] = (IF InFlight(f) THEN 0 ELSE 1)

\* C2: once stop() has been called on the session (it released the reader
\* lock: the manager held a reader, so initialize() had created it and no
\* initialize() follows), no frame is forwarded (yielded) to the consumer
\* afterwards, whether the generator was suspended at a yield, a read was in
\* flight, or the iteration is started again later.
C2_NoForwardAfterStop ==
    [][lockReleases > 0 => forwarded' = forwarded]_vars

\* C3: if reader.read() rejects during getFrameStream, the sequence
\* completes, the consumer's loop ends normally, and the frame pulled
\* immediately before the failure has been closed exactly once.
C3_PullFailureEndsCleanly ==
    lastPull = "error" =>
        /\ genPc = "completed"
        /\ conPc = "done"
        /\ (lastFrame # 0 => closeCount[lastFrame] = 1)

\* C4: stop() never throws, whatever the state it is called in, and over
\* any number of calls the reader lock is released at most once and the
\* track is stopped at most once (a second stop() releases and stops nothing).
C4_StopIdempotent ==
    /\ ~stopThrew
    /\ lockReleases <= readersCreated
    /\ lockReleases <= 1
    /\ trackStops <= 1

\* C4 witness: two stop() calls on a manager that streamed; the second found
\* nothing to release
C4_Witness ==
    /\ stopCalls = 2
    /\ loops >= 1
    /\ lockReleases = 1
    /\ trackStops = 1

\* C5: when initialize() has resolved, the width and height it returned,
\* and those getDimensions() returns from then on, are the displayWidth and
\* displayHeight of the frame the warm-up pull obtained, not the requested
\* ideal size.
C5_DimensionsOfFirstFrame ==
    initPc = "resolved" =>
        /\ warmFrame = 1
        /\ session.width = granted[1]
        /\ session.height = granted[2]
        /\ getDimensions = granted

\* C5 witness: the platform granted another size than the one requested, and
\* the frame loop has been running since
C5_Witness ==
    /\ initPc = "resolved"
    /\ granted # requested
    /\ session.width = 352
    /\ Len(forwarded) >= 1

Abs(n) == IF n < 0 THEN -n ELSE n

C7_ProducerKindPriority ==
    /\ trackState = "none" => mstpType = "unknown"
    /\ trackState # "none" =>
        /\ polyfillingMSTP => mstpType = "polyfill"
        /\ (~polyfillingMSTP /\ windowMSTP) => mstpType = "native"
        /\ (~polyfillingMSTP /\ ~windowMSTP) =>
            /\ mstpType = "unsupported"
            /\ initPc = "rejected"
            /\ rejection = "UnsupportedError"
            /\ readersCreated = 0
            /\ reader = "null"
    /\ initPc = "resolved" =>
        /\ session.mstpType = mstpType
        /\ session.mstpType \in {"polyfill", "native"}

\* C7 witness: flag and native processor both present, initialize() resolved
\* and reported the polyfill
C7_Witness ==
    /\ initPc = "resolved"
    /\ polyfillingMSTP
    /\ windowMSTP
    /\ session.mstpType = "polyfill"

\* C8: a failed initialize() leaves no live track behind: if it fails after
\* getUserMedia returned a stream, the acquired track is stopped.
C8_FailedInitStopsTrack ==
    initPc = "rejected" => trackState # "live"

\* C9: an acquisition failure (getUserMedia rejects, or no frame-production
\* mechanism exists) rejects initialize() with that very error, getUserMedia
\* is not called again, and startup is aborted: the tracker is never
\* initialized and no frame loop is started.
C9_AcquisitionFailureAborts ==
    (initPc = "rejected" /\ thrown \in GumErrors \cup {"UnsupportedError"}) =>
        /\ rejection = thrown
        /\ gumCalls = 1
        /\ appPc = "failed"
        /\ slamInits = 0
        /\ loops = 0
        /\ genPc = "none"
        /\ genReads = 0

\* C9 witness: the user refused the camera, and the application gave up
C9_Witness ==
    /\ initPc = "rejected"
    /\ thrown = "NotAllowedError"
    /\ appPc = "failed"
    /\ gumCalls = 1

\* C10: the frames forwarded to the consumer are a subsequence of the
\* frames the reader delivered, in delivery order: none twice, none before
\* an earlier one, and the frame handed over is the one just pulled.
C10_ForwardedInOrder ==
    /\ \A i \in 1..Len(forwarded) : forwarded[i] \in 1..delivered
    /\ \A i, j \in 1..Len(forwarded) : i < j => forwarded[i] < forwarded[j]
    /\ genPc = "atYield" => held = lastFrame /\ forwarded[Len(forwarded)] = lastFrame

\* C10 witness: frames were dropped between two forwarded ones
C10_Witness ==
    /\ Len(forwarded) = 2
    /\ forwarded[2] > forwarded[1] + 1

\* frames the reader delivered that nobody has closed yet
Unreleased == {f \in 1..delivered : closeCount[f] = 0}

\* C11: in one pipeline at most one pulled frame is unreleased at any
\* moment, and a read is in flight only when every frame pulled before it
\* has been closed: frames are never queued.
C11_AtMostOneUnreleased ==
    /\ Cardinality(Unreleased) <= 1
    /\ rdState = "pending" => Unreleased = {}
    /\ \A f \in Unreleased : InFlight(f)

\* C11 witness: the generator asks for its next frame after frames were
\* both forwarded and dropped
C11_Witness ==
    /\ rdState = "pending"
    /\ genPc = "awaitRead"
    /\ genForwarded >= 1
    /\ dropped # {}
    /\ delivered >= 3

\* C12: when a read of the generator reports done, the generator completes
\* normally: the consumer's loop ends without an exception, no frame is
\* forwarded, counted or closed for that pull, and no further read is issued.
C12_DoneEndsGenerator ==
    [][ lastPull' = "done" =>
            /\ genPc' = "completed"
            /\ conPc' = "done"
            /\ rdState' = "none"
            /\ held' = 0
            /\ frameCount' = frameCount
            /\ forwarded' = forwarded
            /\ genReads' = genReads
            /\ closeCount' = closeCount ]_vars

\* C12 witness: the stream ended after frames had been forwarded
C12_Witness ==
    /\ lastPull = "done"
    /\ genPc = "completed"
    /\ genForwarded >= 1
    /\ readableState = "closed"

\* a step in which a read of the generator delivers a frame
PullsFrame == genPc = "awaitRead" /\ rdState = "frame" /\ lastFrame' = rdFrame

\* C13: each frame the generator pulls is either forwarded or closed at once
\* by the generator and never forwarded; it is forwarded exactly when the
\* counter, incremented before the test (1 on the first pull), is a multiple
\* of the interval; the counter grows by one per successful pull and never
\* decreases within one generator.
C13_ForwardOrDrop ==
    [][ /\ PullsFrame =>
            /\ frameCount' = frameCount + 1
            /\ LET fwd == frameInterval # 0 /\ frameCount' % frameInterval = 0
               IN  /\ fwd <=> (forwarded' = Append(forwarded, rdFrame)
                               /\ held' = rdFrame)
                   /\ fwd => closeCount' = closeCount /\ dropped' = dropped
                   /\ ~fwd => /\ forwarded' = forwarded
                              /\ held' = held
                              /\ dropped' = dropped \cup {rdFrame}
                              /\ closeCount'[rdFrame] = closeCount[rdFrame] + 1
        /\ ~PullsFrame /\ loops' = loops =>
            /\ frameCount' = frameCount
            /\ dropped' = dropped
        /\ \A i \in 1..Len(forwarded') :
               forwarded'[i] \notin dropped'
        /\ \A f \in dropped' : closeCount'[f] = 1 ]_vars

\* C13 witness: at half rate the first pull was dropped and the second
\* forwarded
C13_Witness ==
    /\ targetFPS = 15
    /\ frameInterval = 2
    /\ frameCount = 2
    /\ Cardinality(dropped) = 1
    /\ genForwarded = 1
    /\ genPc = "atYield"

\* C14: with the shipped constants (target rate 30 against an assumed native
\* rate of 30) the interval is 1, every pulled frame is forwarded and the
\* drop branch is never taken.
C14_ShippedRateIsPassThrough ==
    /\ dropped = {}
    /\ genPc # "none" =>
           /\ frameInterval = 1
           /\ genForwarded = frameCount
    /\ \A f \in 1..delivered :
           f # warmFrame /\ ~(rdState = "frame" /\ rdFrame = f) =>
               \E i \in 1..Len(forwarded) : forwarded[i] = f

\* C14 witness: three frames were pulled by the generator and all three
\* were forwarded
C14_Witness ==
    /\ frameCount = 3
    /\ genForwarded = 3
    /\ Len(forwarded) = 3
    /\ dropped = {}

\* C15: a pull of the generator that completes after stop() released the
\* reader is not abandoned: the frame it delivers is closed exactly once
\* (it has no close while the generator or the consumer still holds it) and
\* the loop has not exited while the frame is still held.
C15_LatePullClosedOnce ==
    lateFrame # 0 =>
        IF InFlight(lateFrame)
        THEN /\ closeCount[lateFrame] = 0
             /\ conPc \notin {"done", "threw"}
        ELSE closeCount[lateFrame] = 1

\* C16: every stop() clears the streaming flag first, then releases the
\* reader lock and drops the reader, and only then stops the tracks; when it
\* returns the track is no longer live, both fields are null, and no read is
\* issued afterwards on the handle it released.
C16_StopOrder ==
    [][ /\ stopCalls' = stopCalls + 1 =>
            /\ isStreaming' = FALSE
            /\ reader' = "null"
            /\ stream' = "null"
            /\ trackState' # "live"
            /\ stopTrace'[1] = "flag"
            /\ \A i, j \in 1..Len(stopTrace') :
                   (stopTrace'[i] = "releaseLock" /\ stopTrace'[j] = "trackStop")
                       => i < j
            /\ (reader # "null") <=>
                   (\E i \in 1..Len(stopTrace') : stopTrace'[i] = "releaseLock")
            /\ (reader # "null") <=> (lockReleases' = lockReleases + 1)
            /\ (stream # "null") <=>
                   (\E i \in 1..Len(stopTrace') : stopTrace'[i] = "trackStop")
            /\ (stream # "null") <=> (trackStops' = trackStops + 1)
        /\ lockReleases' > 0 =>
            /\ rdState' # "pending"
            /\ loops' = loops => genReads' = genReads ]_vars

\* C16 witness: a streaming session was stopped: all three effects happened
C16_Witness ==
    /\ stopTrace = <<"flag", "releaseLock", "trackStop">>
    /\ genForwarded >= 1
    /\ trackState = "ended"
    /\ reader = "null"
    /\ ~isStreaming

\* C17: after a read of the generator is rejected, that generator is
\* finished: it issues no further read and forwards no further frame; and
\* once the stream has failed or the lock was released, the reader of this
\* session delivers no frame any more, whoever asks.
C17_NoRetryAfterRejection ==
    [][ /\ lastPull' = "error" =>
            /\ genPc' = "completed"
            /\ rdState' = "none"
            /\ held' = 0
            /\ genReads' = genReads
            /\ forwarded' = forwarded
            /\ frameCount' = frameCount
        /\ (readableState = "errored" \/ lockReleases > 0) =>
            /\ delivered' = delivered
            /\ readersCreated' = readersCreated ]_vars

\* C17 witness: the stream failed under a generator that had already
\* forwarded a frame
C17_Witness ==
    /\ lastPull = "error"
    /\ readableState = "errored"
    /\ isStreaming
    /\ genPc = "completed"
    /\ genForwarded >= 1

\* C18: whenever initialize() has resolved, it made exactly one pull, the
\* warm-up frame has been closed exactly once and stays so, no frame is
\* outstanding before the first getFrameStream() call, and the warm-up frame
\* is never forwarded: every forwarded frame is a later frame of the reader.
C18_WarmupFrameReleased ==
    initPc = "resolved" =>
        /\ warmFrame = 1
        /\ closeCount[warmFrame] = 1
        /\ readersCreated = 1
        /\ \A i \in 1..Len(forwarded) : forwarded[i] > warmFrame
        /\ loops = 0 =>
               /\ delivered = 1
               /\ rdState = "none"
               /\ Unreleased = {}

\* C18 witness: initialize() resolved and the first frame the generator
\* yielded is the second frame of the reader
C18_Witness ==
    /\ initPc = "resolved"
    /\ closeCount[1] = 1
    /\ Len(forwarded) >= 1
    /\ forwarded[1] = 2

\* C20: when something throws while the consumer processes a forwarded
\* frame, the frame is closed, the loop is not left, and the loop asks the
\* generator for the next frame (a read is issued while the manager is
\* streaming; after stop() the sequence ends normally).
C20_ExceptionKeepsDelivery ==
    [][ (held # 0 /\ held' = 0 /\ lastOutcome' \in {"throwEarly", "throwLate"}) =>
            /\ closeCount'[held] >= 1
            /\ conPc' # "threw"
            /\ IF isStreaming /\ reader # "null"
               THEN /\ genPc' = "awaitRead"
                    /\ rdState' = "pending"
                    /\ genReads' = genReads + 1
               ELSE /\ genPc' = "completed"
                    /\ conPc' = "done" ]_vars

\* C19: no two processFrames loops iterate getFrameStream() of the same
\* CameraManager at the same time, however the clicks on the start button
\* and the prompts interleave.
C19_OneLoopPerManager ==
    \A h1, h2 \in Handlers :
        (h1 # h2 /\ hPc[h1] = "looping" /\ hPc[h2] = "looping")
            => loopOn[h1] # loopOn[h2]

\* C21: no frame is used after a close(): the consumer's pixel read of a
\* forwarded frame completes on a frame without any close, a frame the
\* consumer holds has no close at all (neither the generator at its yield
\* nor stop() closes it), and a forwarded frame is closed only by the
\* consumer's own loop body, after its pixel read.
C21_NoUseAfterRelease ==
    [][ /\ ~usedClosed'
        /\ held' # 0 => closeCount'[held'] = 0
        /\ pixelsRead' # pixelsRead =>
               /\ pixelsRead' = held
               /\ closeCount[held] = 0
        /\ \A i \in 1..Len(forwarded') :
               closeCount'[forwarded'[i]] # closeCount[forwarded'[i]] =>
                   /\ held = forwarded'[i]
                   /\ pixelsRead = held
                   /\ held' = 0
        /\ stopCalls' # stopCalls => closeCount' = closeCount ]_vars

\* C21 witness: stop() ran while the consumer held a frame whose pixels it
\* had read, and the frame is still open
C21_Witness ==
    /\ held # 0
    /\ pixelsRead = held
    /\ lockReleases > 0
    /\ stopTrace = <<"flag", "releaseLock", "trackStop">>
    /\ closeCount[held] = 0
    /\ ~usedClosed

\* the for-await loop over getFrameStream() is running
LoopRunning == genPc \in {"awaitRead", "atYield"}

\* C22: once stop() has run on a pipeline whose loop is running, the
\* generator eventually completes and the consumer's for-await loop exits;
\* on the way the generator issues no further read, so at most the pull that
\* was in flight is still handled.
C22_StopEndsSequence ==
    /\ (lockReleases > 0 /\ LoopRunning)
           ~> (genPc = "completed" /\ conPc \in {"done", "threw"})
    /\ [][ (lockReleases > 0 /\ LoopRunning) =>
               /\ genReads' = genReads
               /\ frameCount' <= frameCount + 1
               /\ (frameCount' = frameCount + 1 => lateFrame' # lateFrame) ]_vars

\* C22 witness: the loop has ended after a stop() that found the consumer
\* holding a frame
C22_Witness ==
    /\ lockReleases > 0
    /\ stopTrace = <<"flag", "releaseLock", "trackStop">>
    /\ genPc = "completed"
    /\ conPc = "done"
    /\ lastPull = "frame"
    /\ genForwarded >= 1
    /\ loops = 1

\* C23: the streaming flag changes only when getFrameStream() starts (to
\* true) and in stop() (to false); once a generator has started, every step
\* that is neither of the two -- a pull, a forward, a drop, the end of the
\* stream, a failed pull, the consumer's work -- leaves the flag, the reader
\* reference and the stream reference as they are.
C23_FlagOwnedByStartAndStop ==
    [][ /\ isStreaming' # isStreaming =>
               IF isStreaming' THEN loops' = loops + 1
               ELSE stopCalls' = stopCalls + 1
        /\ loops' = loops + 1 =>
               /\ isStreaming'
               /\ reader' = reader
               /\ stream' = stream
        /\ stopCalls' = stopCalls + 1 => ~isStreaming'
        /\ (genPc # "none" /\ loops' = loops /\ stopCalls' = stopCalls) =>
               /\ isStreaming' = isStreaming
               /\ reader' = reader
               /\ stream' = stream ]_vars

\* C23 witness: the stream ended under a running generator after frames
\* were forwarded, and the flag is still set and both references are held
C23_Witness ==
    /\ lastPull = "done"
    /\ genPc = "completed"
    /\ genForwarded >= 1
    /\ stopCalls = 0
    /\ isStreaming
    /\ reader = "reader"
    /\ stream = "stream"

=============================================================================
